---- MODULE Spec2Model ----
(***************************************************************************)
(* A model of the MCTS engine (src/src/mcts.rs), the game-state trait      *)
(* (src/src/game.rs) and its Connect-4 instance (src/src/connect4.rs).     *)
(*                                                                         *)
(* Option<T> is modelled as a sequence: None is << >>, Some(x) is <<x>>.   *)
(* Node ids, columns and rows are 0-based as in the source; the arena      *)
(* `tree` is a sequence, so the node with id i is tree[i + 1].             *)
(***************************************************************************)
EXTENDS Integers, Sequences, FiniteSets, TLC

(***************************************************************************)
(* Board dimensions.  connect4.rs:63-65 sets WIDTH = 7, HEIGHT = 6 and     *)
(* CONNECT_LEN = 4; the model checks the same code on a smaller board.     *)
(***************************************************************************)
WIDTH == 2
HEIGHT == 3
CONNECT_LEN == 3

\* The most iterations one select_next_move call runs before its compute
\* limit expires (the wall clock is modelled by this cap).
MaxRounds == 4
\* No iteration starts once the current root has this many visits.
MaxVisits == 4
\* The root is advanced only from a state with fewer pieces on the board.
MaxTurns == 6
\* The most select_next_move calls in one run.
MaxBursts == 2

None == << >>
Some(x) == <<x>>
IsSome(o) == o # None
Unwrap(o) == o[1]

Red == "Red"
Yellow == "Yellow"
\* Player::all
Player_all == <<Red, Yellow>>
Players == {Red, Yellow}
\* Player::next
Player_next(p) == IF p = Red THEN Yellow ELSE Red
\* Player::prev
Player_prev(p) == IF p = Yellow THEN Red ELSE Yellow

Cols == 0 .. (WIDTH - 1)
Rows == 0 .. (HEIGHT - 1)

\* Game::new
Game_new ==
    [turn |-> Red,
     board |-> [c \in Cols |-> [r \in Rows |-> None]],
     winner |-> None]

\* The four directions update_winner_from looks along.
Directions == << <<1, 0>>, <<1, 1>>, <<0, 1>>, <<-1, 1>> >>

\* Game::get_point_from: Some(<<col, row>>) when the point is on the board.
get_point_from(start, dir, dist, rev) ==
    LET c_d == dir[1] * dist
        r_d == dir[2] * dist
        n_col == IF rev THEN start[1] - c_d ELSE start[1] + c_d
        n_row == IF rev THEN start[2] - r_d ELSE start[2] + r_d
    IN  IF n_col >= 0 /\ n_col < WIDTH /\ n_row >= 0 /\ n_row < HEIGHT
        THEN Some(<<n_col, n_row>>)
        ELSE None

\* The loop of Game::count_line_from, from distance dist on.
RECURSIVE count_line_loop(_, _, _, _, _, _)
count_line_loop(board, start, dir, player, rev, dist) ==
    IF dist >= CONNECT_LEN
    THEN 0
    ELSE LET p == get_point_from(start, dir, dist, rev)
         IN  IF IsSome(p) /\ board[Unwrap(p)[1]][Unwrap(p)[2]] = Some(player)
             THEN 1 + count_line_loop(board, start, dir, player, rev, dist + 1)
             ELSE 0

\* Game::count_line_from
count_line_from(board, start, dir, player, rev) ==
    count_line_loop(board, start, dir, player, rev, 1)

\* Game::update_winner_from: the game with the winner updated from (col, row).
update_winner_from(g, col, row) ==
    IF g.board[col][row] = None
    THEN g
    ELSE LET ply == Unwrap(g.board[col][row])
             count(dir) == 1 + count_line_from(g.board, <<col, row>>, dir, ply, FALSE)
                             + count_line_from(g.board, <<col, row>>, dir, ply, TRUE)
         IN  IF \E i \in 1 .. Len(Directions) : count(Directions[i]) >= CONNECT_LEN
             THEN [g EXCEPT !.winner = Some(ply)]
             ELSE g

\* col.iter().position(|&cell| cell == None)
first_empty_row(col) ==
    IF \E r \in Rows : col[r] = None
    THEN Some(CHOOSE r \in Rows : col[r] = None /\ \A q \in Rows : q < r => col[q] # None)
    ELSE None

\* Game::make_move that passes the turn when the column is full.
game_make_move_pass_turn(g, mv) ==
    IF mv >= WIDTH
    THEN [err |-> Some("OutOfRange"), state |-> g]
    ELSE LET row == first_empty_row(g.board[mv])
         IN  IF IsSome(row)
             THEN LET placed == [g EXCEPT !.board[mv][Unwrap(row)] = Some(g.turn)]
                      won == update_winner_from(placed, mv, Unwrap(row))
                  IN  [err |-> None, state |-> [won EXCEPT !.turn = Player_next(g.turn)]]
             ELSE [err |-> Some("ColumnFull"),
                   state |-> [g EXCEPT !.turn = Player_next(g.turn)]]

\* Game::make_move: [err |-> None, state |-> the new state] on Ok(()),
\* [err |-> Some(error), state |-> the state as the call leaves it] on Err.
game_make_move(g, mv) ==
    IF mv >= WIDTH
    THEN [err |-> Some("OutOfRange"), state |-> g]
    ELSE LET row == first_empty_row(g.board[mv])
         IN  IF IsSome(row)
             THEN LET placed == [g EXCEPT !.board[mv][Unwrap(row)] = Some(g.turn)]
                      won == update_winner_from(placed, mv, Unwrap(row))
                  IN  [err |-> None, state |-> [won EXCEPT !.turn = Player_next(g.turn)]]
             ELSE [err |-> Some("ColumnFull"), state |-> g]

\* The columns in index order, as board.iter().zip(0..WIDTH) visits them.
ColSeq == [i \in 1 .. WIDTH |-> i - 1]

\* Game::get_winner
get_winner(g) == g.winner

\* The filter of Game::get_moves looking at the slot below the top one.
slot_below_top_is_empty(g, c) == g.board[c][HEIGHT - 2] = None

\* A column is kept when its top slot is empty.
top_is_empty(g, c) == g.board[c][HEIGHT - 1] = None

\* Game::get_moves without the test of the winner.
get_moves_ignore_winner(g) == SelectSeq(ColSeq, LAMBDA c : top_is_empty(g, c))

\* Game::get_moves
get_moves(g) ==
    IF IsSome(get_winner(g))
    THEN << >>
    ELSE SelectSeq(ColSeq, LAMBDA c : top_is_empty(g, c))

\* Game::get_current_player
get_current_player(g) == g.turn

\* Game::get_prev_player
get_prev_player(g) == Player_prev(g.turn)

\* GameState::from_move: make_move on a clone; the receiver is untouched.
from_move(g, mv) == game_make_move(g, mv)

\* The elements of a sequence.
Range(s) == {s[i] : i \in 1 .. Len(s)}

(***************************************************************************)
(* phase_rollout plays uniformly random legal moves until none remain and  *)
(* returns the final state's winner.  phase_rollout(s) is the set of       *)
(* results over all the random choices; "panic" stands for the unwrap of a *)
(* rejected move.  The results are tabulated once, from the fullest        *)
(* positions down, over the positions legal play reaches from Game_new.    *)
(***************************************************************************)
RolloutPanic == <<"panic">>

RECURSIVE positions_at(_)
positions_at(k) ==
    IF k = 0
    THEN {Game_new}
    ELSE UNION {{from_move(s, m).state : m \in Range(get_moves(s))} : s \in positions_at(k - 1)}

\* One turn of the while-let loop from state s, given the results from the
\* states after it.
rollout_step(s, later) ==
    IF get_moves(s) = << >>
    THEN {get_winner(s)}
    ELSE UNION {LET r == game_make_move(s, m)
                IN  IF IsSome(r.err) THEN {RolloutPanic} ELSE later[r.state]
                : m \in Range(get_moves(s))}

RECURSIVE rollout_from(_)
rollout_from(k) ==
    IF k > WIDTH * HEIGHT
    THEN << >>
    ELSE LET later == rollout_from(k + 1)
         IN  [s \in positions_at(k) |-> rollout_step(s, later)] @@ later

RolloutTable == rollout_from(0)

\* Mcts::phase_rollout: the possible return values from `state`.
phase_rollout(state) ==
    IF get_moves(state) = << >> THEN {get_winner(state)} ELSE RolloutTable[state]

(***************************************************************************)
(* Node                                                                    *)
(***************************************************************************)
\* Node::new taking every column as untried, whatever the state allows.
Node_new_all_columns(mv, parent_node, state) ==
    [mv |-> mv,
     parent_node |-> parent_node,
     child_nodes |-> << >>,
     wins |-> 0,
     visits |-> 0,
     untried_mvs |-> ColSeq,
     state |-> state]

\* Node::new taking the full columns of the state as untried.
Node_new_full_columns(mv, parent_node, state) ==
    [mv |-> mv,
     parent_node |-> parent_node,
     child_nodes |-> << >>,
     wins |-> 0,
     visits |-> 0,
     untried_mvs |-> SelectSeq(ColSeq, LAMBDA c : ~top_is_empty(state, c)),
     state |-> state]

\* Node::new
Node_new(mv, parent_node, state) ==
    [mv |-> mv,
     parent_node |-> parent_node,
     child_nodes |-> << >>,
     wins |-> 0,
     visits |-> 0,
     untried_mvs |-> get_moves(state),
     state |-> state]

\* Node::is_fully_expanded
is_fully_expanded(n) == Len(n.untried_mvs) = 0

\* Node::has_children
has_children(n) == Len(n.child_nodes) # 0

\* Node::update with the two counters swapped.
Node_update_swapped(n, winner) ==
    [n EXCEPT !.wins = @ + 1,
              !.visits = IF IsSome(winner) /\ Unwrap(winner) = get_prev_player(n.state)
                         THEN @ + 1
                         ELSE @]

\* Node::update crediting the player to move at the node instead of the
\* player who moved into it.
Node_update_current_player(n, winner) ==
    [n EXCEPT !.visits = @ + 1,
              !.wins = IF IsSome(winner) /\ Unwrap(winner) = get_current_player(n.state)
                       THEN @ + 1
                       ELSE @]

\* Node::update
Node_update(n, winner) ==
    [n EXCEPT !.visits = @ + 1,
              !.wins = IF IsSome(winner) /\ Unwrap(winner) = get_prev_player(n.state)
                       THEN @ + 1
                       ELSE @]

(***************************************************************************)
(* Mcts: the helpers, as functions of the arena t.                         *)
(***************************************************************************)
\* Mcts::get_node
get_node(t, node_id) == t[node_id + 1]

\* Mcts::push_node: the arena with the node pushed; its id is Len(t).
push_node(t, n) == Append(t, n)

\* Mcts::make_move that creates the child without recording it in the
\* parent's child_nodes.
make_move_unlinked(t, node_id, mv) ==
    LET n == get_node(t, node_id)
        retained == [t EXCEPT ![node_id + 1].untried_mvs =
                        SelectSeq(n.untried_mvs, LAMBDA m : m # mv)]
        r == from_move(n.state, mv)
    IN  IF IsSome(r.err)
        THEN [panic |-> TRUE, tree |-> retained, child_id |-> node_id]
        ELSE [panic |-> FALSE,
              tree |-> push_node(retained, Node_new(Some(mv), Some(node_id), r.state)),
              child_id |-> Len(t)]

\* Mcts::make_move without the retain: the move stays in untried_mvs.
make_move_keep_untried(t, node_id, mv) ==
    LET r == from_move(get_node(t, node_id).state, mv)
        child_id == Len(t)
        pushed == push_node(t, Node_new(Some(mv), Some(node_id), r.state))
    IN  IF IsSome(r.err)
        THEN [panic |-> TRUE, tree |-> t, child_id |-> node_id]
        ELSE [panic |-> FALSE,
              tree |-> [pushed EXCEPT ![node_id + 1].child_nodes = Append(@, child_id)],
              child_id |-> child_id]

\* Mcts::make_move.  The untried move is dropped before the state is built,
\* so a rejected move (the unwrap panics) leaves the node without it.
make_move(t, node_id, mv) ==
    LET n == get_node(t, node_id)
        retained == [t EXCEPT ![node_id + 1].untried_mvs =
                        SelectSeq(n.untried_mvs, LAMBDA m : m # mv)]
        r == from_move(n.state, mv)
        child_id == Len(t)
        pushed == push_node(retained, Node_new(Some(mv), Some(node_id), r.state))
    IN  IF IsSome(r.err)
        THEN [panic |-> TRUE, tree |-> retained, child_id |-> node_id]
        ELSE [panic |-> FALSE,
              tree |-> [pushed EXCEPT ![node_id + 1].child_nodes = Append(@, child_id)],
              child_id |-> child_id]

\* The lookup loop of Mcts::update_move never finding the child.
find_child_never(t, node_id, mv) == None

\* The lookup loop of Mcts::update_move without the test m == mv: the last
\* child, whatever its move.
find_child_any_move(t, node_id, mv) ==
    LET ch == get_node(t, node_id).child_nodes
    IN  IF ch = << >> THEN None ELSE Some(ch[Len(ch)])

\* The lookup loop of Mcts::update_move: the last child (in child order) whose
\* move is mv, or None.
find_child(t, node_id, mv) ==
    LET ch == get_node(t, node_id).child_nodes
        hits == {i \in 1 .. Len(ch) : get_node(t, ch[i]).mv = Some(mv)}
    IN  IF hits = {}
        THEN None
        ELSE Some(ch[CHOOSE i \in hits : \A j \in hits : j <= i])

\* Mcts::append_children_to that builds each copied child afresh with
\* Node::new instead of cloning it.
RECURSIVE append_children_fresh(_, _, _)
RECURSIVE append_grandchildren_fresh(_, _, _, _)
append_grandchildren_fresh(old, n_children, i, n_tree) ==
    IF i > Len(n_children)
    THEN n_tree
    ELSE append_grandchildren_fresh(old, n_children, i + 1,
                                    append_children_fresh(old, n_children[i], n_tree))

append_children_fresh(old, c_id, n_tree) ==
    LET children == n_tree[c_id + 1].child_nodes
        n_children == [i \in 1 .. Len(children) |-> Len(n_tree) + i - 1]
        fresh(n) == [Node_new(n.mv, Some(c_id), n.state) EXCEPT !.child_nodes = n.child_nodes]
        copied == n_tree \o [i \in 1 .. Len(children) |-> fresh(get_node(old, children[i]))]
        filled == append_grandchildren_fresh(old, n_children, 1, copied)
    IN  [filled EXCEPT ![c_id + 1].child_nodes = n_children]

\* Mcts::append_children_to and its second loop.  old is self.tree, n_tree
\* the arena being built; the result is n_tree after the call.
RECURSIVE append_children_to(_, _, _)
RECURSIVE append_grandchildren(_, _, _, _)
append_grandchildren(old, n_children, i, n_tree) ==
    IF i > Len(n_children)
    THEN n_tree
    ELSE append_grandchildren(old, n_children, i + 1,
                              append_children_to(old, n_children[i], n_tree))

append_children_to(old, c_id, n_tree) ==
    LET children == n_tree[c_id + 1].child_nodes
        n_children == [i \in 1 .. Len(children) |-> Len(n_tree) + i - 1]
        copied == n_tree \o [i \in 1 .. Len(children) |->
                        [get_node(old, children[i]) EXCEPT !.parent_node = Some(c_id)]]
        filled == append_grandchildren(old, n_children, 1, copied)
    IN  [filled EXCEPT ![c_id + 1].child_nodes = n_children]

\* Mcts::prune_nodes that keeps the root's parent handle.
prune_nodes_keep_parent(t, cur) ==
    append_children_to(t, 0, <<get_node(t, cur)>>)

\* Mcts::prune_nodes: the new arena; the new current root id is 0.
prune_nodes(t, cur) ==
    LET cur_node == [get_node(t, cur) EXCEPT !.parent_node = None]
    IN  append_children_to(t, 0, <<cur_node>>)

(***************************************************************************)
(* f64 scores.  A score is NaN, +infinity or a number kept in fixed point  *)
(* with Scale units to 1.0.  Only the order of two scores and whether a    *)
(* score is NaN reach the engine's behaviour; the fixed-point order is the *)
(* f64 order for every pair of children of a node with up to 10 visits.    *)
(***************************************************************************)
Scale == 100 * 100
NaN == [nan |-> TRUE, inf |-> FALSE, v |-> 0]
Inf == [nan |-> FALSE, inf |-> TRUE, v |-> 0]
Num(x) == [nan |-> FALSE, inf |-> FALSE, v |-> x]

\* Default UCB1 exploration constant, sqrt(2), in Scale units.
UCB1_DEFAULT_EXPLORE_CONST == 14142

\* ln(n) in Scale units, for n = 1, 2, ...
LnScaled ==
    <<0, 6931, 10986, 13863, 16094, 17918, 19459, 20794, 21972, 23026,
      23979, 24849, 25649, 26391, 27081, 27726, 28332, 28904, 29444, 29957>>

\* The integer square root of x, between lo and hi.
RECURSIVE isqrt_between(_, _, _)
isqrt_between(x, lo, hi) ==
    IF lo >= hi
    THEN lo
    ELSE LET mid == (lo + hi + 1) \div 2
         IN  IF mid * mid <= x
             THEN isqrt_between(x, mid, hi)
             ELSE isqrt_between(x, lo, mid - 1)

isqrt(x) == isqrt_between(x, 0, 2 * Scale)

\* (wins as f64) / (visits as f64)
win_rate(wins, visits) ==
    IF visits = 0
    THEN IF wins = 0 THEN NaN ELSE Inf
    ELSE Num((wins * Scale) \div visits)

\* explore_const * ((node.visits as f64).ln() / (child.visits as f64)).sqrt()
\* ln(0) is -infinity and its square root NaN; ln(1) is 0 and 0/0 is NaN.
explore_term(node_visits, child_visits, explore_const) ==
    IF node_visits = 0
    THEN NaN
    ELSE IF node_visits = 1
    THEN IF child_visits = 0 THEN NaN ELSE Num(0)
    ELSE IF child_visits = 0
    THEN Inf
    ELSE Num((explore_const * isqrt((LnScaled[node_visits] * Scale) \div child_visits))
             \div Scale)

\* f64 addition on scores.
score_add(a, b) ==
    IF a.nan \/ b.nan THEN NaN
    ELSE IF a.inf \/ b.inf THEN Inf
    ELSE Num(a.v + b.v)

\* x.partial_cmp(y) says Less or Equal; it is None when either is NaN.
score_le(a, b) == b.inf \/ (~a.inf /\ a.v <= b.v)

\* Mcts::selector_ucb1
selector_ucb1(n, child, explore_const) ==
    score_add(win_rate(child.wins, child.visits),
              explore_term(n.visits, child.visits, explore_const))

\* The stable ascending sort of slice::sort_by on <<id, score>> pairs: each
\* element goes after the elements that do not compare greater than it.
RECURSIVE sort_by_score(_)
sort_by_score(pairs) ==
    IF Len(pairs) <= 1
    THEN pairs
    ELSE LET front == sort_by_score(SubSeq(pairs, 1, Len(pairs) - 1))
             x == pairs[Len(pairs)]
             k == Cardinality({i \in 1 .. Len(front) : score_le(front[i][2], x[2])})
         IN  SubSeq(front, 1, k) \o <<x>> \o SubSeq(front, k + 1, Len(front))

\* Mcts::select_max_child that takes the first of the children with the
\* highest score instead of the last.
select_max_child_first_of_ties(n, scores) ==
    LET best == {i \in 1 .. Len(n.child_nodes) :
                    \A j \in 1 .. Len(n.child_nodes) : score_le(scores[j], scores[i])}
    IN  IF Len(n.child_nodes) >= 2 /\ \E i \in 1 .. Len(n.child_nodes) : scores[i].nan
        THEN [panic |-> TRUE, id |-> 0]
        ELSE IF Len(n.child_nodes) = 0
        THEN [panic |-> TRUE, id |-> 0]
        ELSE [panic |-> FALSE,
              id |-> n.child_nodes[CHOOSE i \in best : \A j \in best : i <= j]]

\* Mcts::select_max_child; scores[i] is what the selector closure gives for
\* the i-th child of n.  The unwrap of partial_cmp panics on a NaN score
\* once two children are compared; last().unwrap() panics without children.
select_max_child(n, scores) ==
    LET children == [i \in 1 .. Len(n.child_nodes) |-> <<n.child_nodes[i], scores[i]>>]
        sorted == sort_by_score(children)
    IN  IF Len(children) >= 2 /\ \E i \in 1 .. Len(children) : children[i][2].nan
        THEN [panic |-> TRUE, id |-> 0]
        ELSE IF Len(children) = 0
        THEN [panic |-> TRUE, id |-> 0]
        ELSE [panic |-> FALSE, id |-> sorted[Len(sorted)][1]]

(***************************************************************************)
(* The phases.                                                             *)
(***************************************************************************)
\* Mcts::phase_selection that never descends.
phase_selection_no_descent(t, node_id, explore) == [panic |-> FALSE, id |-> node_id]

\* Mcts::phase_selection with SelectionPolicy::Ucb1(explore).
RECURSIVE phase_selection(_, _, _)
phase_selection(t, node_id, explore) ==
    LET n == get_node(t, node_id)
        ex == IF IsSome(explore) THEN Unwrap(explore) ELSE UCB1_DEFAULT_EXPLORE_CONST
        scores == [i \in 1 .. Len(n.child_nodes) |->
                      selector_ucb1(n, get_node(t, n.child_nodes[i]), ex)]
        picked == select_max_child(n, scores)
    IN  IF ~is_fully_expanded(n) \/ ~has_children(n)
        THEN [panic |-> FALSE, id |-> node_id]
        ELSE IF picked.panic
        THEN picked
        ELSE phase_selection(t, picked.id, explore)

\* Mcts::phase_expansion that never makes the move: the node selection
\* stopped at is handed to the rollout as it is.
phase_expansion_no_child(t, node_id, choice) ==
    [panic |-> FALSE, tree |-> t, child_id |-> node_id]

\* Mcts::phase_expansion; choice is what untried_mvs.choose(rng) returns.
phase_expansion(t, node_id, choice) ==
    IF IsSome(choice)
    THEN make_move(t, node_id, Unwrap(choice))
    ELSE [panic |-> FALSE, tree |-> t, child_id |-> node_id]

\* Mcts::phase_backprop that starts at the parent of the expanded node.
RECURSIVE phase_backprop_from_parent(_, _, _)
phase_backprop_from_parent(t, node_id, winner) ==
    LET parent == get_node(t, node_id).parent_node
        updated == [t EXCEPT ![Unwrap(parent) + 1] = Node_update(@, winner)]
    IN  IF IsSome(parent)
        THEN IF IsSome(get_node(t, Unwrap(parent)).parent_node)
             THEN phase_backprop_from_parent(updated, Unwrap(parent), winner)
             ELSE updated
        ELSE t

\* Mcts::phase_backprop that updates the expanded node and stops.
phase_backprop_no_walk(t, node_id, winner) ==
    [t EXCEPT ![node_id + 1] = Node_update(@, winner)]

\* Mcts::phase_backprop that breaks out of the loop before it updates the
\* node without a parent.
RECURSIVE phase_backprop_skip_root(_, _, _)
phase_backprop_skip_root(t, node_id, winner) ==
    LET parent == get_node(t, node_id).parent_node
    IN  IF IsSome(parent)
        THEN phase_backprop_skip_root([t EXCEPT ![node_id + 1] = Node_update(@, winner)],
                                      Unwrap(parent), winner)
        ELSE t

\* Mcts::phase_backprop
RECURSIVE phase_backprop(_, _, _)
phase_backprop(t, node_id, winner) ==
    LET updated == [t EXCEPT ![node_id + 1] = Node_update(@, winner)]
        parent == get_node(t, node_id).parent_node
    IN  IF IsSome(parent)
        THEN phase_backprop(updated, Unwrap(parent), winner)
        ELSE updated

\* Mcts::phase_action_select: the move returned, or a panic.
phase_action_select(t, cur) ==
    LET n == get_node(t, cur)
        scores == [i \in 1 .. Len(n.child_nodes) |->
                      win_rate(get_node(t, n.child_nodes[i]).wins,
                               get_node(t, n.child_nodes[i]).visits)]
        picked == select_max_child(n, scores)
    IN  IF picked.panic \/ get_node(t, picked.id).mv = None
        THEN [panic |-> TRUE, mv |-> None]
        ELSE [panic |-> FALSE, mv |-> get_node(t, picked.id).mv]

(***************************************************************************)
(* The engine as a state machine.                                          *)
(*   tree, cur_node_id, target_player   the fields of Mcts                 *)
(*   pc          where the caller's thread is: "idle" between calls,       *)
(*               "loop" at the while test of select_next_move, then        *)
(*               "expansion", "rollout", "backprop" inside an iteration,   *)
(*               "panicked" after a panic (the process is gone)            *)
(*   call        the public call in progress or last made, with its move   *)
(*   node, winner, rounds   the locals of select_next_move                 *)
(*   ret         what the last call returned                               *)
(*   hist        bookkeeping: the number of select_next_move calls made,   *)
(*               and for the last of them, until the root is advanced, the *)
(*               number of nodes its prune dropped and the sum of the      *)
(*               visits of the root's children right after the prune       *)
(* The caller's side (main.rs, and a caller of the game alone):            *)
(*   game        the game state the caller holds (`state` in do_ai_game)   *)
(*   other       the engine of the player who is not to move, as           *)
(*               [tree, cur_node_id, target_player]; do_ai_game keeps one  *)
(*               engine per player in `ais`, and the engine of the player  *)
(*               to move, ais[cur_ply], is tree/cur_node_id/target_player  *)
(*   working_state   the clone phase_rollout plays on, None outside it     *)
(*   glast       the last call made on the game alone: its operation, its  *)
(*               move, its error, the state before it, whether only legal  *)
(*               moves were made so far, the moves a rollout has made, the *)
(*               state a rollout ended in and the result it returned       *)
(***************************************************************************)
VARIABLES tree, cur_node_id, target_player, pc, call, node, winner, rounds, ret, hist,
          game, other, working_state, glast

vars == <<tree, cur_node_id, target_player, pc, call, node, winner, rounds, ret, hist,
          game, other, working_state, glast>>

\* What the engine's own methods never touch.
caller_vars == <<game, other, working_state, glast>>

\* Mcts::get_cur_node
get_cur_node == get_node(tree, cur_node_id)

\* The moves a caller may pass: every column, and one index out of range.
MoveInputs == 0 .. WIDTH

\* The number of pieces on the board of g.
pieces(g) == Cardinality({cr \in Cols \X Rows : g.board[cr[1]][cr[2]] # None})

\* The sum of the visits of the children of node n in arena t.
RECURSIVE child_visits_from(_, _, _)
child_visits_from(t, n, i) ==
    IF i > Len(n.child_nodes)
    THEN 0
    ELSE get_node(t, n.child_nodes[i]).visits + child_visits_from(t, n, i + 1)

child_visits(t, n) == child_visits_from(t, n, 1)

NoRet == [status |-> "none", mv |-> None, rounds |-> 0]
Panicked == [status |-> "panic", mv |-> None, rounds |-> 0]
Returned(mv, n) == [status |-> "ok", mv |-> mv, rounds |-> n]

NoHist == [bursts |-> 0, dropped |-> 0, base |-> 0]

NoGameCall ==
    [op |-> "new", mv |-> None, err |-> None, before |-> Game_new, legal |-> TRUE,
     steps |-> 0, final |-> Game_new, result |-> None]

\* Mcts::new over Game::new, for either player (main.rs:24-25, 57).
Init ==
    /\ tree = push_node(<< >>, Node_new(None, None, Game_new))
    /\ cur_node_id = 0
    /\ target_player \in Players
    /\ pc = "idle"
    /\ call = [op |-> "new", mv |-> None]
    /\ node = 0
    /\ winner = None
    /\ rounds = 0
    /\ ret = NoRet
    /\ hist = NoHist
    /\ game = Game_new
    /\ other = [tree |-> push_node(<< >>, Node_new(None, None, Game_new)),
                cur_node_id |-> 0,
                target_player |-> Player_next(target_player)]
    /\ working_state = None
    /\ glast = NoGameCall

\* The mover check of Mcts::update_move with the opponent branch left out.
wrong_mover_target_only(tgt, n, for_target_player) ==
    for_target_player /\ tgt # get_current_player(n.state)

\* The mover check of Mcts::update_move: TRUE when it panics.
wrong_mover(tgt, n, for_target_player) ==
    LET target_is_current == tgt = get_current_player(n.state)
    IN  \/ for_target_player /\ ~target_is_current
        \/ ~for_target_player /\ target_is_current

\* Mcts::update_move: [panic, tree, cur_node_id] after the call.
update_move(t, cur, tgt, mv, for_target_player) ==
    LET n == get_node(t, cur)
        next_id == find_child(t, cur, mv)
        made == make_move(t, cur, mv)
    IN  IF wrong_mover(tgt, n, for_target_player)
        THEN [panic |-> TRUE, tree |-> t, cur_node_id |-> cur]
        ELSE IF IsSome(next_id)
        THEN [panic |-> FALSE, tree |-> t, cur_node_id |-> Unwrap(next_id)]
        ELSE IF made.panic
        THEN [panic |-> TRUE, tree |-> made.tree, cur_node_id |-> cur]
        ELSE [panic |-> FALSE, tree |-> made.tree, cur_node_id |-> made.child_id]

\* A call of update_target_move or update_opponent_move.
UpdateMove(op, mv, for_target_player) ==
    /\ pc = "idle"
    /\ pieces(get_cur_node.state) < MaxTurns
    /\ LET r == update_move(tree, cur_node_id, target_player, mv, for_target_player)
       IN  /\ tree' = r.tree
           /\ cur_node_id' = r.cur_node_id
           /\ pc' = IF r.panic THEN "panicked" ELSE "idle"
           /\ ret' = IF r.panic THEN Panicked ELSE Returned(None, 0)
    /\ call' = [op |-> op, mv |-> Some(mv)]
    /\ hist' = [NoHist EXCEPT !.bursts = hist.bursts]
    /\ UNCHANGED <<target_player, node, winner, rounds>>
    /\ UNCHANGED caller_vars

\* Mcts::update_target_move
UpdateTargetMove == \E mv \in MoveInputs : UpdateMove("update_target_move", mv, TRUE)

\* Mcts::update_opponent_move
UpdateOpponentMove == \E mv \in MoveInputs : UpdateMove("update_opponent_move", mv, FALSE)

\* Mcts::select_next_move, up to the while loop: prune, start the clock.
select_next_move_begin ==
    /\ pc = "idle"
    /\ LET pruned == prune_nodes(tree, cur_node_id)
       IN  /\ tree' = pruned
           /\ hist' = [bursts |-> hist.bursts + 1,
                       dropped |-> Len(tree) - Len(pruned),
                       base |-> child_visits(pruned, get_node(pruned, 0))]
    /\ cur_node_id' = 0
    /\ rounds' = 0
    /\ pc' = "loop"
    /\ call' = [op |-> "select_next_move", mv |-> None]
    /\ ret' = NoRet
    /\ UNCHANGED <<target_player, node, winner>>
    /\ UNCHANGED caller_vars

\* A call of select_next_move at any time between calls.
SelectNextMove ==
    /\ hist.bursts < MaxBursts
    /\ select_next_move_begin

\* The while test passes and the iteration runs phase_selection.
PhaseSelection ==
    /\ pc = "loop"
    /\ rounds < MaxRounds
    /\ get_cur_node.visits < MaxVisits
    /\ LET r == phase_selection(tree, cur_node_id, None)
       IN  /\ node' = r.id
           /\ pc' = IF r.panic THEN "panicked" ELSE "expansion"
           /\ ret' = IF r.panic THEN Panicked ELSE ret
    /\ UNCHANGED <<tree, cur_node_id, target_player, call, winner, rounds, hist>>
    /\ UNCHANGED caller_vars

\* phase_expansion, with the random choice among the untried moves.
PhaseExpansion ==
    /\ pc = "expansion"
    /\ \E choice \in IF get_node(tree, node).untried_mvs = << >>
                     THEN {None}
                     ELSE {Some(m) : m \in Range(get_node(tree, node).untried_mvs)} :
          LET r == phase_expansion(tree, node, choice)
          IN  /\ tree' = r.tree
              /\ node' = r.child_id
              /\ pc' = IF r.panic THEN "panicked" ELSE "rollout"
              /\ ret' = IF r.panic THEN Panicked ELSE ret
    /\ UNCHANGED <<cur_node_id, target_player, call, winner, rounds, hist>>
    /\ UNCHANGED caller_vars

\* phase_rollout, with the random playout.
PhaseRollout ==
    /\ pc = "rollout"
    /\ \E w \in phase_rollout(get_node(tree, node).state) :
          /\ winner' = IF w = RolloutPanic THEN winner ELSE w
          /\ pc' = IF w = RolloutPanic THEN "panicked" ELSE "backprop"
          /\ ret' = IF w = RolloutPanic THEN Panicked ELSE ret
    /\ UNCHANGED <<tree, cur_node_id, target_player, call, node, rounds, hist>>
    /\ UNCHANGED caller_vars

\* phase_backprop and rounds += 1.
PhaseBackprop ==
    /\ pc = "backprop"
    /\ tree' = phase_backprop(tree, node, winner)
    /\ rounds' = rounds + 1
    /\ pc' = "loop"
    /\ UNCHANGED <<cur_node_id, target_player, call, node, winner, ret, hist>>
    /\ UNCHANGED caller_vars

\* The while test fails: phase_action_select and the return.
PhaseActionSelect ==
    /\ pc = "loop"
    /\ LET r == phase_action_select(tree, cur_node_id)
       IN  /\ pc' = IF r.panic THEN "panicked" ELSE "idle"
           /\ ret' = IF r.panic THEN Panicked ELSE Returned(r.mv, rounds)
    /\ node' = 0
    /\ winner' = None
    /\ rounds' = 0
    /\ UNCHANGED <<tree, cur_node_id, target_player, call, hist>>
    /\ UNCHANGED caller_vars

Next ==
    \/ UpdateTargetMove
    \/ UpdateOpponentMove
    \/ SelectNextMove
    \/ PhaseSelection
    \/ PhaseExpansion
    \/ PhaseRollout
    \/ PhaseBackprop
    \/ PhaseActionSelect

Spec == Init /\ [][Next]_vars

(***************************************************************************)
(* do_ai_game (main.rs): one engine per player, the engine of the player   *)
(* to move searches, its move is applied to the caller's state and every   *)
(* engine is advanced by it.                                               *)
(***************************************************************************)
\* The while test of do_ai_game is being evaluated: no turn is under way.
AtTurnStart == pc = "idle" /\ call.op \in {"new", "do_ai_game"}

\* The while test passes and ais[cur_ply].select_next_move is called.
DriverSelectNextMove ==
    /\ AtTurnStart
    /\ get_moves(game) # << >>
    /\ select_next_move_begin

\* The rest of the loop body once select_next_move has returned mv:
\* state.make_move(mv).unwrap(), update_target_move on ais[cur_ply] and
\* update_opponent_move on the other engine, then cur_ply moves on.
DriverApplyMove ==
    /\ pc = "idle"
    /\ call.op = "select_next_move"
    /\ ret.status = "ok"
    /\ LET mv == Unwrap(ret.mv)
           applied == game_make_move(game, mv)
           mine == update_move(tree, cur_node_id, target_player, mv, TRUE)
           theirs == update_move(other.tree, other.cur_node_id, other.target_player, mv, FALSE)
           panic == IsSome(applied.err) \/ mine.panic \/ theirs.panic
       IN  /\ game' = applied.state
           /\ pc' = IF panic THEN "panicked" ELSE "idle"
           /\ ret' = IF panic THEN Panicked ELSE Returned(None, 0)
           /\ call' = [op |-> "do_ai_game", mv |-> Some(mv)]
           /\ IF panic
              THEN UNCHANGED <<tree, cur_node_id, target_player, other>>
              ELSE /\ tree' = theirs.tree
                   /\ cur_node_id' = theirs.cur_node_id
                   /\ target_player' = other.target_player
                   /\ other' = [tree |-> mine.tree,
                                cur_node_id |-> mine.cur_node_id,
                                target_player |-> target_player]
    /\ hist' = [NoHist EXCEPT !.bursts = hist.bursts]
    /\ UNCHANGED <<node, winner, rounds, working_state, glast>>

\* main: the engines are built for Player::all() in order, Red's first.
DriverInit == Init /\ target_player = Player_all[1]

DriverNext ==
    \/ DriverSelectNextMove
    \/ PhaseSelection
    \/ PhaseExpansion
    \/ PhaseRollout
    \/ PhaseBackprop
    \/ PhaseActionSelect
    \/ DriverApplyMove

DriverSpec == DriverInit /\ [][DriverNext]_vars

(***************************************************************************)
(* The game on its own: a caller of Game::make_move with any column index, *)
(* and phase_rollout played move by move on its clone of the state.        *)
(***************************************************************************)
engine_vars == <<tree, cur_node_id, target_player, pc, call, node, winner, rounds, ret, hist>>

\* A call of Game::make_move on the caller's state.
GameMakeMove ==
    /\ working_state = None
    /\ glast.op # "rollout_panicked"
    /\ \E mv \in MoveInputs :
          LET r == game_make_move(game, mv)
          IN  /\ game' = r.state
              /\ glast' = [op |-> "make_move", mv |-> Some(mv), err |-> r.err,
                           before |-> game,
                           legal |-> glast.legal /\ (IsSome(r.err) \/ mv \in Range(get_moves(game))),
                           steps |-> 0, final |-> Game_new, result |-> None]
    /\ UNCHANGED <<engine_vars, other, working_state>>

\* phase_rollout is called on the caller's state and clones it.
RolloutBegin ==
    /\ working_state = None
    /\ glast.op # "rollout_panicked"
    /\ working_state' = Some(game)
    /\ glast' = [glast EXCEPT !.op = "phase_rollout", !.mv = None, !.err = None,
                              !.before = game, !.steps = 0, !.final = Game_new,
                              !.result = None]
    /\ UNCHANGED <<engine_vars, other, game>>

\* One turn of the while-let loop: a move chosen among get_moves is made.
RolloutStep ==
    /\ working_state # None
    /\ glast.op = "phase_rollout"
    /\ \E mv \in Range(get_moves(Unwrap(working_state))) :
          LET r == game_make_move(Unwrap(working_state), mv)
          IN  /\ working_state' = Some(r.state)
              /\ glast' = [glast EXCEPT !.op = IF IsSome(r.err) THEN "rollout_panicked" ELSE @,
                                        !.mv = Some(mv),
                                        !.err = r.err,
                                        !.steps = IF IsSome(r.err) THEN @ ELSE @ + 1]
    /\ UNCHANGED <<engine_vars, other, game>>

\* get_moves is empty: the loop ends and the winner is returned.
RolloutReturn ==
    /\ working_state # None
    /\ glast.op = "phase_rollout"
    /\ get_moves(Unwrap(working_state)) = << >>
    /\ working_state' = None
    /\ glast' = [glast EXCEPT !.op = "rollout_returned",
                              !.final = Unwrap(working_state),
                              !.result = get_winner(Unwrap(working_state))]
    /\ UNCHANGED <<engine_vars, other, game>>

GameInit == Init /\ target_player = Player_all[1]

GameNext ==
    \/ GameMakeMove
    \/ RolloutBegin
    \/ RolloutStep
    \/ RolloutReturn

GameSpec == GameInit /\ [][GameNext]_vars

(***************************************************************************)
(* Properties.                                                             *)
(***************************************************************************)
NodeIds(t) == 0 .. (Len(t) - 1)

\* select_next_move has returned normally and no call was made since.
SelectReturned == call.op = "select_next_move" /\ ret.status = "ok"

\* C1: whenever select_next_move returns (move, rounds), the move is one of
\* the legal moves of the state held by the current root of that call.
C1_ReturnedMoveIsLegal ==
    SelectReturned => Unwrap(ret.mv) \in Range(get_moves(get_cur_node.state))

\* A call returned a move after at least one iteration, on a root the engine
\* had been advanced to (the prune dropped nodes) with a full column.
C1_Witness ==
    /\ SelectReturned
    /\ ret.rounds >= 1
    /\ hist.dropped > 0
    /\ Len(get_moves(get_cur_node.state)) < WIDTH

\* C2: in every reachable state, mid-burst and after pruning included, every
\* node of the arena has wins <= visits.
C2_WinsAtMostVisits ==
    \A id \in NodeIds(tree) : get_node(tree, id).wins <= get_node(tree, id).visits

\* Mid-burst, after a prune that dropped nodes, a node has won some but not
\* all of its simulations.
C2_Witness ==
    /\ pc = "rollout"
    /\ hist.dropped > 0
    /\ \E id \in NodeIds(tree) :
          /\ get_node(tree, id).wins >= 1
          /\ get_node(tree, id).wins < get_node(tree, id).visits

\* C3 as claimed: after any select_next_move call, the visits of the current
\* root's children sum to the number of iterations the call reports.
C3_SumEqualsRounds ==
    SelectReturned => child_visits(tree, get_cur_node) = ret.rounds

\* C3 amended: after a select_next_move call, the visits of the current
\* root's children sum to what they summed to right after the call's prune
\* plus the number of iterations the call reports.
C3_SumGrowsByRounds ==
    SelectReturned => child_visits(tree, get_cur_node) = hist.base + ret.rounds

\* A call returned after iterations on a root whose children had been
\* visited by an earlier call.
C3_Witness ==
    /\ SelectReturned
    /\ ret.rounds >= 2
    /\ hist.base >= 1
    /\ hist.dropped > 0

\* The paths down from node id in arena t: a path is the sequence of
\* positions taken in child_nodes, << >> being the node itself.
RECURSIVE Paths(_, _)
Paths(t, id) ==
    {<< >>} \cup
    UNION {{<<i>> \o p : p \in Paths(t, get_node(t, id).child_nodes[i])}
           : i \in 1 .. Len(get_node(t, id).child_nodes)}

\* The id of the node at the end of path p from node id.
RECURSIVE NodeAt(_, _, _)
NodeAt(t, id, p) ==
    IF p = << >> THEN id ELSE NodeAt(t, get_node(t, id).child_nodes[p[1]], Tail(p))

\* The node id and all the nodes below it.
RECURSIVE Descendants(_, _)
Descendants(t, id) ==
    {id} \cup UNION {Descendants(t, c) : c \in Range(get_node(t, id).child_nodes)}

\* The step in which select_next_move prunes the arena.
PruneStep == pc = "idle" /\ pc' = "loop"

\* C4: pruning preserves statistics exactly: every node of the new arena, at
\* a path from the new root, has the wins, visits, untried_mvs, mv and state
\* of the node at the same path from the old current root, and as many
\* children (so the order of each node's children is kept).
C4_PrunePreservesNodes ==
    [][PruneStep =>
        \A p \in Paths(tree', 0) :
            /\ p \in Paths(tree, cur_node_id)
            /\ LET new == get_node(tree', NodeAt(tree', 0, p))
                   old == get_node(tree, NodeAt(tree, cur_node_id, p))
               IN  /\ new.wins = old.wins
                   /\ new.visits = old.visits
                   /\ new.untried_mvs = old.untried_mvs
                   /\ new.mv = old.mv
                   /\ new.state = old.state
                   /\ Len(new.child_nodes) = Len(old.child_nodes)]_vars

\* A prune has just dropped nodes and kept two children of the new root, a
\* kept node having wins and a kept child having an untried move.
C4_Witness ==
    /\ pc = "loop"
    /\ rounds = 0
    /\ hist.dropped > 0
    /\ Len(get_node(tree, 0).child_nodes) = 2
    /\ \E id \in NodeIds(tree) : get_node(tree, id).wins >= 1
    /\ \E id \in NodeIds(tree) : id # 0 /\ get_node(tree, id).untried_mvs # << >>

\* C5: after pruning the arena holds exactly the old current root and its
\* descendants, each once; the new root is handle 0 with no parent and is
\* the current root; every child handle leads to the copy of the child it
\* led to before and every parent handle back to the copy of the parent.
C5_PruneKeepsExactlySubtree ==
    [][PruneStep =>
        /\ cur_node_id' = 0
        /\ get_node(tree', 0).parent_node = None
        /\ Len(tree') = Cardinality(Descendants(tree, cur_node_id))
        /\ {NodeAt(tree', 0, p) : p \in Paths(tree, cur_node_id)} = NodeIds(tree')
        /\ \A p \in Paths(tree, cur_node_id) :
              LET new_id == NodeAt(tree', 0, p)
                  new == get_node(tree', new_id)
                  old == get_node(tree, NodeAt(tree, cur_node_id, p))
              IN  /\ new.mv = old.mv
                  /\ new.state = old.state
                  /\ Len(new.child_nodes) = Len(old.child_nodes)
                  /\ \A i \in 1 .. Len(new.child_nodes) :
                        /\ new.child_nodes[i] \in NodeIds(tree')
                        /\ get_node(tree', new.child_nodes[i]).parent_node = Some(new_id)]_vars

\* A prune has just dropped the old root and a sibling branch of two nodes
\* and kept the new root with a child.
C5_Witness ==
    /\ pc = "loop"
    /\ rounds = 0
    /\ hist.dropped >= 3
    /\ Len(tree) >= 2
    /\ IsSome(get_node(tree, 0).mv)

UpdateOps == {"update_target_move", "update_opponent_move"}

\* The step is a call of update_target_move or update_opponent_move with mv.
UpdateStep(mv) ==
    /\ pc = "idle"
    /\ vars' # vars
    /\ call'.op \in UpdateOps
    /\ call'.mv = Some(mv)

\* The call made in the step names the player who is to move at the root.
CorrectMover ==
    (call'.op = "update_target_move") <=> (target_player = get_cur_node.state.turn)

\* The current root has a child reached by mv.
HasChildFor(mv) ==
    \E i \in 1 .. Len(get_cur_node.child_nodes) :
        get_node(tree, get_cur_node.child_nodes[i]).mv = Some(mv)

\* What C6 says the step does: one node appended, with the given move, the
\* old root as parent, no wins or visits and the old root's state with the
\* move applied; it is appended to the old root's children and is the new
\* current root; the nodes other than the old root are as they were.
SynthesizesChild(mv) ==
    /\ pc' = "idle"
    /\ Len(tree') = Len(tree) + 1
    /\ LET child == tree'[Len(tree')]
           applied == game_make_move(get_cur_node.state, mv)
       IN  /\ child.mv = Some(mv)
           /\ child.parent_node = Some(cur_node_id)
           /\ child.wins = 0
           /\ child.visits = 0
           /\ applied.err = None
           /\ child.state = applied.state
    /\ get_node(tree', cur_node_id).child_nodes = Append(get_cur_node.child_nodes, Len(tree))
    /\ cur_node_id' = Len(tree)
    /\ \A id \in NodeIds(tree) : id # cur_node_id => get_node(tree', id) = get_node(tree, id)

C7_AdvanceToExistingChild ==
    [][\A mv \in MoveInputs :
          UpdateStep(mv) /\ CorrectMover /\ HasChildFor(mv) =>
              /\ pc' = "idle"
              /\ tree' = tree
              /\ target_player' = target_player
              /\ get_node(tree, cur_node_id').mv = Some(mv)
              /\ get_node(tree, cur_node_id').parent_node = Some(cur_node_id)]_vars

\* An advance has just moved the root to an explored child; its sibling and
\* the old root are still in the arena.
C7_Witness ==
    /\ pc = "idle"
    /\ call.op \in UpdateOps
    /\ ret.status = "ok"
    /\ get_cur_node.visits >= 2
    /\ IsSome(get_cur_node.parent_node)
    /\ Len(get_node(tree, Unwrap(get_cur_node.parent_node)).child_nodes) = 2
    /\ get_cur_node.child_nodes # << >>

\* C8: update_target_move panics unless the target player is the current
\* player at the current root, update_opponent_move panics unless it is
\* not, and the panic comes before the root handle or the arena changes.
C8_WrongMoverPanicsFirst ==
    [][\A mv \in MoveInputs :
          UpdateStep(mv) /\ ~CorrectMover =>
              /\ pc' = "panicked"
              /\ tree' = tree
              /\ cur_node_id' = cur_node_id]_vars

\* update_opponent_move has panicked on a root where the target player is
\* to move, the root having explored children.
C8_Witness ==
    /\ pc = "panicked"
    /\ call.op = "update_opponent_move"
    /\ target_player = get_cur_node.state.turn
    /\ get_cur_node.child_nodes # << >>

\* The children phase_selection scores on its way down from node id.
RECURSIVE ScoredBySelection(_, _)
ScoredBySelection(t, id) ==
    LET n == get_node(t, id)
        scores == [i \in 1 .. Len(n.child_nodes) |->
                      selector_ucb1(n, get_node(t, n.child_nodes[i]),
                                    UCB1_DEFAULT_EXPLORE_CONST)]
        picked == select_max_child(n, scores)
    IN  IF ~is_fully_expanded(n) \/ ~has_children(n)
        THEN {}
        ELSE Range(n.child_nodes) \cup
             (IF picked.panic THEN {} ELSE ScoredBySelection(t, picked.id))

\* C9: every child that the selection phase or the final action selection
\* scores has visits >= 1.  Both run from the while test of
\* select_next_move.
C9_ScoredChildrenVisited ==
    pc = "loop" =>
        \A c \in ScoredBySelection(tree, cur_node_id) \cup Range(get_cur_node.child_nodes) :
            get_node(tree, c).visits >= 1

\* At the while test, on a root synthesised by an advance, selection scores
\* the root's two children and goes on below one of them.
C9_Witness ==
    /\ pc = "loop"
    /\ IsSome(get_cur_node.mv)
    /\ hist.base = 0
    /\ hist.dropped > 0
    /\ Cardinality(ScoredBySelection(tree, cur_node_id)) >= 2
    /\ get_cur_node.visits < MaxVisits

\* C10 as claimed: no node has more children than its state has legal
\* moves, and no two children of a node have the same move.
C10_ChildrenWithinLegalMoves ==
    \A id \in NodeIds(tree) :
        LET n == get_node(tree, id)
        IN  /\ Len(n.child_nodes) <= Len(get_moves(n.state))
            /\ \A i, j \in 1 .. Len(n.child_nodes) :
                  i # j => get_node(tree, n.child_nodes[i]).mv # get_node(tree, n.child_nodes[j]).mv

\* The node id and the nodes above it, up the parent handles.
RECURSIVE PathToRoot(_, _)
PathToRoot(t, id) ==
    IF get_node(t, id).parent_node = None
    THEN {id}
    ELSE {id} \cup PathToRoot(t, Unwrap(get_node(t, id).parent_node))

\* The step in which an iteration runs phase_backprop.
BackpropStep == pc = "backprop" /\ pc' = "loop"

\* A step of an iteration before its backpropagation.
IterationStep == pc \in {"loop", "expansion", "rollout"} /\ pc' \in {"expansion", "rollout", "backprop"}

\* C11: in each iteration backpropagation adds exactly 1 to the visits of
\* every node on the path from the expanded node up to the current root,
\* the root included, and to no other; the wins and visits of the nodes off
\* the path are unchanged by the iteration, and the phases before the
\* backpropagation change no statistics at all.
C11_BackpropUpdatesExactlyPath ==
    [][/\ BackpropStep =>
            /\ Len(tree') = Len(tree)
            /\ cur_node_id \in PathToRoot(tree, node)
            /\ \A id \in NodeIds(tree) :
                  IF id \in PathToRoot(tree, node)
                  THEN get_node(tree', id).visits = get_node(tree, id).visits + 1
                  ELSE /\ get_node(tree', id).visits = get_node(tree, id).visits
                       /\ get_node(tree', id).wins = get_node(tree, id).wins
       /\ IterationStep =>
            \A id \in NodeIds(tree) :
                /\ get_node(tree', id).visits = get_node(tree, id).visits
                /\ get_node(tree', id).wins = get_node(tree, id).wins]_vars

\* An iteration has just backpropagated from a node two levels below the
\* root, beside a visited node that is off the path.
C11_Witness ==
    /\ pc = "loop"
    /\ rounds >= 1
    /\ Cardinality(PathToRoot(tree, node)) >= 3
    /\ get_node(tree, node).visits = 1
    /\ \E id \in NodeIds(tree) : id \notin PathToRoot(tree, node) /\ get_node(tree, id).visits >= 1

\* The player who moved into a node with state g: with two players, the one
\* who is not to move there.
MovedInto(g) == IF g.turn = Red THEN Yellow ELSE Red

\* C12: recording a result on a node adds 1 to its visits, and 1 to its wins
\* if and only if the winner is the player who moved into the node; a draw
\* or a win by the other player leaves wins unchanged.
C12_UpdateCreditsPreviousPlayer ==
    [][BackpropStep =>
        \A id \in PathToRoot(tree, node) :
            LET old == get_node(tree, id)
                new == get_node(tree', id)
            IN  /\ new.visits = old.visits + 1
                /\ winner = Some(MovedInto(old.state)) => new.wins = old.wins + 1
                /\ winner # Some(MovedInto(old.state)) => new.wins = old.wins]_vars

\* A draw has just been recorded on a path with a node that was credited a
\* win before and a node that has never been credited one.
C12_Witness ==
    /\ pc = "loop"
    /\ rounds >= 2
    /\ winner = None
    /\ \E id \in PathToRoot(tree, node) :
          get_node(tree, id).wins >= 1 /\ get_node(tree, id).visits > get_node(tree, id).wins
    /\ \E id \in PathToRoot(tree, node) :
          get_node(tree, id).wins = 0 /\ get_node(tree, id).visits >= 2

\* The state at the current root of the engine e.
RootState(e) == get_node(e.tree, e.cur_node_id).state

\* C13: in do_ai_game, after every completed turn the state at the current
\* root of each engine equals the caller's game state, for the whole game.
C13_EnginesFollowGame ==
    AtTurnStart =>
        /\ get_cur_node.state = game
        /\ RootState(other) = game

\* The game has been played to its end through turns in which an engine
\* was advanced to a move it had not explored and turns in which it was
\* advanced to an explored child.
C13_Witness ==
    /\ AtTurnStart
    /\ get_moves(game) = << >>
    /\ pieces(game) >= 5
    /\ \E e \in {other, [tree |-> tree, cur_node_id |-> cur_node_id]} :
          get_node(e.tree, e.cur_node_id).visits = 0
    /\ \E e \in {other, [tree |-> tree, cur_node_id |-> cur_node_id]} :
          get_node(e.tree, e.cur_node_id).visits >= 1

\* Every cell of column c of g holds a piece.
ColumnIsFull(g, c) == \A r \in Rows : g.board[c][r] # None

\* C14: Game::make_move into a full column returns the column-full error,
\* with a column index of WIDTH or more the out-of-range error, and in both
\* cases the state after the call equals the state before it.
C14_RejectedMoveLeavesState ==
    [][\A mv \in MoveInputs :
          glast'.op = "make_move" /\ glast'.mv = Some(mv) /\ glast' # glast =>
              /\ mv >= WIDTH => glast'.err = Some("OutOfRange") /\ game' = game
              /\ mv < WIDTH /\ ColumnIsFull(game, mv) =>
                    glast'.err = Some("ColumnFull") /\ game' = game
              /\ mv < WIDTH /\ ~ColumnIsFull(game, mv) => glast'.err = None]_vars

\* A move into a full column has just been rejected while the other column
\* still had room.
C14_Witness ==
    /\ glast.op = "make_move"
    /\ glast.err = Some("ColumnFull")
    /\ ColumnIsFull(game, Unwrap(glast.mv))
    /\ \E c \in Cols : ~ColumnIsFull(game, c)
    /\ game = glast.before

\* Player p has CONNECT_LEN pieces in a row on the board of g: along a row,
\* a column or one of the two diagonals.
HasLine(g, p) ==
    \E c \in Cols, r \in Rows, d \in {<<1, 0>>, <<0, 1>>, <<1, 1>>, <<1, -1>>} :
        \A k \in 0 .. (CONNECT_LEN - 1) :
            /\ c + k * d[1] \in Cols
            /\ r + k * d[2] \in Rows
            /\ g.board[c + k * d[1]][r + k * d[2]] = Some(p)

\* The game of g has ended: a player has a line or every column is full.
GameEnded(g) == (\E p \in Players : HasLine(g, p)) \/ (\A c \in Cols : ColumnIsFull(g, c))

\* The states reached by legal moves only that the caller or a rollout
\* holds.
LegalStatesHeld ==
    IF glast.legal
    THEN {game} \cup (IF working_state = None THEN {} ELSE {Unwrap(working_state)})
    ELSE {}

C16_SelectionStopsAtFrontier ==
    pc = "expansion" =>
        LET n == get_node(tree, node)
        IN  /\ node \in Descendants(tree, cur_node_id)
            /\ cur_node_id \in PathToRoot(tree, node)
            /\ Len(n.untried_mvs) > 0 \/ Len(n.child_nodes) = 0
            /\ \A id \in PathToRoot(tree, node) \ {node} :
                  /\ Len(get_node(tree, id).untried_mvs) = 0
                  /\ Len(get_node(tree, id).child_nodes) >= 1
            /\ Len(n.untried_mvs) > 0 \/ get_moves(n.state) = << >>

\* Selection has just gone down from a fully expanded root to a child that
\* has an untried move and a child of its own.
C16_Witness ==
    /\ pc = "expansion"
    /\ node # cur_node_id
    /\ Len(get_cur_node.child_nodes) = 2
    /\ Len(get_node(tree, node).untried_mvs) >= 1
    /\ Len(get_node(tree, node).child_nodes) >= 1

\* s without its i-th element.
RemoveAt(s, i) == SubSeq(s, 1, i - 1) \o SubSeq(s, i + 1, Len(s))

\* The step in which an iteration runs phase_expansion.
ExpansionStep == pc = "expansion" /\ pc' # "expansion"

\* C17: on a node with untried moves the expansion phase removes exactly
\* one move from the node's untried_mvs and appends exactly one node to the
\* arena, with that move, the node as parent, no statistics and the node's
\* state with the move applied; the new node is appended to the node's
\* children and returned.  On a node with no untried moves it changes
\* nothing and returns the node.  No other phase adds a node, so an
\* iteration grows the arena by at most one node.
C17_ExpansionAddsOneChild ==
    [][/\ ExpansionStep /\ get_node(tree, node).untried_mvs # << >> =>
            LET old == get_node(tree, node)
                new == get_node(tree', node)
                child == tree'[Len(tree')]
            IN  /\ pc' = "rollout"
                /\ Len(tree') = Len(tree) + 1
                /\ node' = Len(tree)
                /\ \E i \in 1 .. Len(old.untried_mvs) :
                      /\ new.untried_mvs = RemoveAt(old.untried_mvs, i)
                      /\ child.mv = Some(old.untried_mvs[i])
                      /\ game_make_move(old.state, old.untried_mvs[i]).err = None
                      /\ child.state = game_make_move(old.state, old.untried_mvs[i]).state
                /\ child.parent_node = Some(node)
                /\ child.wins = 0 /\ child.visits = 0 /\ child.child_nodes = << >>
                /\ new = [old EXCEPT !.untried_mvs = new.untried_mvs,
                                     !.child_nodes = Append(old.child_nodes, Len(tree))]
                /\ \A id \in NodeIds(tree) : id # node => get_node(tree', id) = get_node(tree, id)
       /\ ExpansionStep /\ get_node(tree, node).untried_mvs = << >> =>
            /\ pc' = "rollout"
            /\ tree' = tree
            /\ node' = node
       /\ pc \in {"loop", "rollout", "backprop"} => Len(tree') = Len(tree)]_vars

\* Expansion has just tried the first of the two moves of a node below the
\* root.
C17_Witness ==
    /\ pc = "rollout"
    /\ node = Len(tree) - 1
    /\ get_node(tree, node).visits = 0
    /\ IsSome(get_node(tree, node).parent_node)
    /\ LET parent == get_node(tree, Unwrap(get_node(tree, node).parent_node))
       IN  /\ IsSome(parent.parent_node)
           /\ Len(parent.untried_mvs) = 1
           /\ parent.child_nodes = <<node>>

\* wins/visits of node a is at most that of node b, both visited, compared
\* as fractions.
RatioLe(a, b) == a.wins * b.visits <= b.wins * a.visits

\* C18: action selection returns the move of the child of the current root
\* with the highest wins/visits; among children that share the highest
\* ratio it is the one that comes last in the root's child order.
C18_ActionSelectTakesLastMax ==
    SelectReturned =>
        LET ch == [i \in 1 .. Len(get_cur_node.child_nodes) |->
                      get_node(tree, get_cur_node.child_nodes[i])]
        IN  \E i \in 1 .. Len(ch) :
                /\ ret.mv = ch[i].mv
                /\ \A j \in 1 .. Len(ch) : RatioLe(ch[j], ch[i])
                /\ \A j \in (i + 1) .. Len(ch) : ~RatioLe(ch[i], ch[j])

\* A call has returned the move of the second of two children that have
\* the same ratio from different counts.
C18_Witness ==
    /\ SelectReturned
    /\ Len(get_cur_node.child_nodes) = 2
    /\ LET a == get_node(tree, get_cur_node.child_nodes[1])
           b == get_node(tree, get_cur_node.child_nodes[2])
       IN  /\ a.wins >= 1
           /\ a.visits # b.visits
           /\ RatioLe(a, b) /\ RatioLe(b, a)
           /\ ret.mv = b.mv

\* Every untried move of every node is accepted by make_move on the node's
\* state.
InternalMovesAccepted ==
    \A id \in NodeIds(tree) :
        LET n == get_node(tree, id)
        IN  \A i \in 1 .. Len(n.untried_mvs) :
                game_make_move(n.state, n.untried_mvs[i]).err = None

\* C19: the engine's own move applications never fail: in every reachable
\* state every untried move of a node is accepted on the node's state and
\* every move a rollout draws from get_moves is accepted (no playout from
\* the expanded node's state ends in a panic), so the unwrap in expansion
\* and in rollout never panics.
C19_InternalMovesNeverFail ==
    /\ InternalMovesAccepted
    /\ pc = "expansion" =>
          \A m \in Range(get_node(tree, node).untried_mvs) :
              ~phase_expansion(tree, node, Some(m)).panic
    /\ pc = "rollout" => RolloutPanic \notin phase_rollout(get_node(tree, node).state)

\* A rollout has just ended, unaborted, from a node made by expansion whose
\* state has a full column and whose other column is untried.
C19_Witness ==
    /\ pc = "backprop"
    /\ node = Len(tree) - 1
    /\ get_node(tree, node).untried_mvs # << >>
    /\ \E c \in Cols : ColumnIsFull(get_node(tree, node).state, c)

\* The number of empty cells on the board of g.
Empties(g) == WIDTH * HEIGHT - pieces(g)

\* C20: a rollout always terminates: each turn of its loop fills one empty
\* cell, so it makes at most as many moves as the state it started from
\* has empty cells, never aborts, and ends in a state with no legal moves;
\* it returns that state's winner, or none when the board filled without a
\* line.
C20_RolloutTerminates ==
    /\ glast.op # "rollout_panicked"
    /\ working_state # None =>
          /\ glast.steps + Empties(Unwrap(working_state)) = Empties(glast.before)
          /\ get_moves(Unwrap(working_state)) # << >> => Empties(Unwrap(working_state)) >= 1
    /\ glast.op = "rollout_returned" =>
          /\ glast.steps <= Empties(glast.before)
          /\ get_moves(glast.final) = << >>
          /\ glast.result = glast.final.winner
          /\ IsSome(glast.result) => HasLine(glast.final, Unwrap(glast.result))
          /\ glast.result = None =>
                /\ \A c \in Cols : ColumnIsFull(glast.final, c)
                /\ ~\E p \in Players : HasLine(glast.final, p)
          /\ glast.result \in phase_rollout(glast.before)

\* A rollout from a position with at least four empty cells has filled the
\* board and returned no winner.
C20_Witness ==
    /\ glast.op = "rollout_returned"
    /\ glast.steps >= 4
    /\ glast.steps = Empties(glast.before)
    /\ glast.result = None


\* The iteration in progress is over or has not begun: the engine is between
\* calls, or at the while test of select_next_move.
BetweenIterations == pc \in {"idle", "loop"}

\* The visits of node n that are not visits of one of its children.
OwnVisits(t, n) == n.visits - child_visits(t, n)

\* C21: between iterations every node has at least as many visits as its
\* children have together, and a node with a child has at most one visit more
\* than they have: none when it is the root Mcts::new constructed.
C21_OwnVisitsZeroOrOne ==
    BetweenIterations =>
        \A id \in NodeIds(tree) :
            LET n == get_node(tree, id)
            IN  /\ OwnVisits(tree, n) >= 0
                /\ has_children(n) => OwnVisits(tree, n) \in {0, 1}
                /\ has_children(n) /\ n.mv = None => OwnVisits(tree, n) = 0

\* The same on the nodes an advance on a finished game has not touched: those
\* whose state has no winner (no other node with no legal moves gets a child).
OwnVisitsZeroOrOneInPlay ==
    BetweenIterations =>
        \A id \in NodeIds(tree) :
            LET n == get_node(tree, id)
            IN  /\ OwnVisits(tree, n) >= 0
                /\ has_children(n) /\ get_winner(n.state) = None =>
                       OwnVisits(tree, n) \in {0, 1}
                /\ has_children(n) /\ n.mv = None => OwnVisits(tree, n) = 0

\* The while test of select_next_move, after at least one whole iteration of
\* this call, on a root whose state has a legal move: where the loop may
\* end and phase_action_select run.
AtActionSelect ==
    /\ pc = "loop"
    /\ rounds >= 1
    /\ get_moves(get_cur_node.state) # << >>

\* C22: when the root's state has a legal move and at least one iteration of
\* the call has completed, the root has a child at action selection, each of
\* its children has been visited, and phase_action_select yields the move of
\* one of them: no unwrap of an empty child list, no comparison of a NaN.
\* The call then returns that move with the number of iterations.
C22_ActionSelectReturnsMove ==
    /\ AtActionSelect =>
          /\ has_children(get_cur_node)
          /\ \A c \in Range(get_cur_node.child_nodes) : get_node(tree, c).visits >= 1
          /\ ~phase_action_select(tree, cur_node_id).panic
          /\ \E c \in Range(get_cur_node.child_nodes) :
                 phase_action_select(tree, cur_node_id).mv = get_node(tree, c).mv
    /\ pc = "idle" /\ call.op = "select_next_move" /\ ret.rounds >= 1
          /\ get_moves(get_cur_node.state) # << >> =>
              /\ ret.status = "ok"
              /\ IsSome(ret.mv)

\* select_next_move returned a move after two or more iterations on a root
\* with two children (the sort compared their scores), reached by an advance
\* that synthesized the root with no visits.
C22_Witness ==
    /\ SelectReturned
    /\ pc = "idle"
    /\ ret.rounds >= 2
    /\ IsSome(ret.mv)
    /\ Len(get_cur_node.child_nodes) >= 2
    /\ hist.dropped > 0
====
